---- MODULE Spec2Model ----
(***************************************************************************)
(* explodesh: a codec between a TOML value tree and a directory tree.      *)
(* explode (src/src/explode.rs) writes one filesystem entry per node of a  *)
(* toml::Value; implode (src/src/implode.rs) reads a directory tree back   *)
(* into a toml::Value, inferring scalar types from file contents and       *)
(* classifying directories as arrays or tables from their entry names.     *)
(*                                                                         *)
(* Text (file contents, table keys, entry names) is a sequence of          *)
(* one-character strings, so that parsing and formatting are computed      *)
(* character by character as the code's library calls compute them.        *)
(***************************************************************************)
EXTENDS Integers, Sequences, FiniteSets, TLC

VARIABLES doc, fs, pc, explodeRes, arrayRes, result

vars == <<doc, fs, pc, explodeRes, arrayRes, result>>

----------------------------------------------------------------------------
(* Characters and numbers                                                  *)

Digits == <<"0", "1", "2", "3", "4", "5", "6", "7", "8", "9">>

IsDigit(c) == \E i \in 1..10 : Digits[i] = c

DigitVal(c) == (CHOOSE i \in 1..10 : Digits[i] = c) - 1

AllDigits(t) == \A i \in 1..Len(t) : IsDigit(t[i])

RECURSIVE DigitsValue(_)
DigitsValue(t) ==
  IF t = <<>> THEN 0
  ELSE 10 * DigitsValue(SubSeq(t, 1, Len(t) - 1)) + DigitVal(t[Len(t)])

\* usize::to_string / Display for integers: decimal digits, no padding.
RECURSIVE NatToText(_)
NatToText(n) ==
  IF n < 10 THEN <<Digits[n + 1]>>
  ELSE NatToText(n \div 10) \o <<Digits[(n % 10) + 1]>>

IntToText(n) == IF n < 0 THEN <<"-">> \o NatToText(-n) ELSE NatToText(n)

\* {:0w} formatting of a natural number.
RECURSIVE PadText(_, _)
PadText(t, w) == IF Len(t) >= w THEN t ELSE PadText(<<"0">> \o t, w)

\* Byte values of the characters used, for the byte-wise ordering of String
\* keys in toml::value::Table (a BTreeMap<String, Value>).
CharCode(c) ==
  CASE c = "\t" -> 9
    [] c = "\n" -> 10
    [] c = " " -> 32
    [] c = "\"" -> 34
    [] c = "+" -> 43
    [] c = "-" -> 45
    [] c = "." -> 46
    [] c = "/" -> 47
    [] IsDigit(c) -> 48 + DigitVal(c)
    [] c = ":" -> 58
    [] c = "T" -> 84
    [] c = "\\" -> 92
    [] c = "a" -> 97
    [] c = "b" -> 98
    [] c = "e" -> 101
    [] c = "f" -> 102
    [] c = "l" -> 108
    [] c = "n" -> 110
    [] c = "r" -> 114
    [] c = "s" -> 115
    [] c = "t" -> 116
    [] c = "u" -> 117
    [] c = "x" -> 120

RECURSIVE TextLess(_, _)
TextLess(a, b) ==
  IF a = <<>> THEN b # <<>>
  ELSE IF b = <<>> THEN FALSE
  ELSE IF a[1] = b[1] THEN TextLess(Tail(a), Tail(b))
  ELSE CharCode(a[1]) < CharCode(b[1])

\* The elements of a finite set of texts in ascending byte order.
RECURSIVE SortedTexts(_)
SortedTexts(S) ==
  IF S = {} THEN <<>>
  ELSE LET m == CHOOSE x \in S : \A y \in S \ {x} : TextLess(x, y)
       IN <<m>> \o SortedTexts(S \ {m})

----------------------------------------------------------------------------
(* toml::Value: a record [t, v] with t the variant.                        *)
(*   Boolean  v \in BOOLEAN                                                *)
(*   String   v a text                                                     *)
(*   Integer  v an integer                                                 *)
(*   Float    v = <<m, s>>, the number m * 10^s, m not divisible by 10     *)
(*   Datetime v = <<date, time>>, date = <<y, m, d>> or <<>>,              *)
(*            time = <<h, m, s>> or <<>>                                   *)
(*   Array    v a sequence of values                                       *)
(*   Table    v a function from keys (texts) to values                     *)

Boolean(b) == [t |-> "Boolean", v |-> b]

String(s) == [t |-> "String", v |-> s]

Integer(n) == [t |-> "Integer", v |-> n]

Float(m, s) == [t |-> "Float", v |-> <<m, s>>]

Datetime(d, tm) == [t |-> "Datetime", v |-> <<d, tm>>]

Array(a) == [t |-> "Array", v |-> a]

Table(f) == [t |-> "Table", v |-> f]

NoValue == [t |-> "None", v |-> <<>>]

\* anyhow::Result<toml::Value>, plus the third way a call can end: a panic.
\* The payload v is the value of an Ok, the message and path of an Err.
Ok(val) == [r |-> "Ok", v |-> val]

Err(msg, path) == [r |-> "Err", v |-> [t |-> "Error", v |-> <<msg, path>>]]

Panic == [r |-> "Panic", v |-> NoValue]

NotRun == [r |-> "None", v |-> NoValue]

----------------------------------------------------------------------------
(* Canonical scalar encoding: toml::to_string on a scalar toml::Value      *)

EscapeChar(c) ==
  CASE c = "\"" -> <<"\\", "\"">>
    [] c = "\\" -> <<"\\", "\\">>
    [] c = "\n" -> <<"\\", "n">>
    [] c = "\t" -> <<"\\", "t">>
    [] c = "\r" -> <<"\\", "r">>
    [] OTHER -> <<c>>

RECURSIVE EscapeText(_)
EscapeText(s) ==
  IF s = <<>> THEN <<>> ELSE EscapeChar(s[1]) \o EscapeText(Tail(s))

FormatStr(s) == <<"\"">> \o EscapeText(s) \o <<"\"">>

FormatBool(b) ==
  IF b THEN <<"t", "r", "u", "e">> ELSE <<"f", "a", "l", "s", "e">>

RECURSIVE Zeros(_)
Zeros(n) == IF n <= 0 THEN <<>> ELSE <<"0">> \o Zeros(n - 1)

\* Display of a finite f64 is positional (never an exponent); the serializer
\* appends ".0" to a whole number.
FormatF64(f) ==
  LET m == f[1]
      s == f[2]
      a == IF m < 0 THEN -m ELSE m
      sign == IF m < 0 THEN <<"-">> ELSE <<>>
      ds == PadText(NatToText(a), 1 - s)
  IN IF s >= 0 THEN sign \o NatToText(a) \o Zeros(s) \o <<".", "0">>
     ELSE sign \o SubSeq(ds, 1, Len(ds) + s) \o <<".">>
               \o SubSeq(ds, Len(ds) + s + 1, Len(ds))

FormatDate(d) ==
  PadText(NatToText(d[1]), 4) \o <<"-">> \o PadText(NatToText(d[2]), 2)
    \o <<"-">> \o PadText(NatToText(d[3]), 2)

FormatTime(tm) ==
  PadText(NatToText(tm[1]), 2) \o <<":">> \o PadText(NatToText(tm[2]), 2)
    \o <<":">> \o PadText(NatToText(tm[3]), 2)

FormatDatetime(dt) ==
  IF dt[1] # <<>> /\ dt[2] # <<>> THEN FormatDate(dt[1]) \o <<"T">> \o FormatTime(dt[2])
  ELSE IF dt[1] # <<>> THEN FormatDate(dt[1])
  ELSE FormatTime(dt[2])

TomlToString(val) ==
  CASE val.t = "Boolean" -> FormatBool(val.v)
    [] val.t = "String" -> FormatStr(val.v)
    [] val.t = "Integer" -> IntToText(val.v)
    [] val.t = "Float" -> FormatF64(val.v)
    [] val.t = "Datetime" -> FormatDatetime(val.v)

----------------------------------------------------------------------------
(* Scalar inference: the five deserialize_* functions of implode.rs        *)

Parsed(val) == [ok |-> TRUE, val |-> val]

NotParsed == [ok |-> FALSE, val |-> NoValue]

IsWhitespace(c) == c \in {" ", "\t", "\n", "\r"}

\* Mutant of TrimEnd: only one trailing newline is removed.
TrimEndOfLine(s) ==
  IF s # <<>> /\ s[Len(s)] = "\n" THEN SubSeq(s, 1, Len(s) - 1) ELSE s

\* str::trim_end: every trailing whitespace character is removed.
RECURSIVE TrimEnd(_)
TrimEnd(s) ==
  IF s # <<>> /\ IsWhitespace(s[Len(s)]) THEN TrimEnd(SubSeq(s, 1, Len(s) - 1))
  ELSE s

\* str::parse::<bool>
DeserializeBool(s) ==
  IF s = <<"t", "r", "u", "e">> THEN Parsed(Boolean(TRUE))
  ELSE IF s = <<"f", "a", "l", "s", "e">> THEN Parsed(Boolean(FALSE))
  ELSE NotParsed

\* Regex ^"(.+)"$ : `.` matches any character but a newline, the group is
\* greedy and `$` is the end of the text; the capture is taken verbatim.
DeserializeStr(s) ==
  IF /\ Len(s) >= 3
     /\ s[1] = "\""
     /\ s[Len(s)] = "\""
     /\ \A i \in 2..(Len(s) - 1) : s[i] # "\n"
  THEN Parsed(String(SubSeq(s, 2, Len(s) - 1)))
  ELSE NotParsed

\* str::parse::<i64>: an optional sign and at least one digit. The texts of
\* the model are far shorter than 19 digits, so the range check never fails.
DeserializeI64(s) ==
  LET signed == s # <<>> /\ s[1] \in {"+", "-"}
      body == IF signed THEN Tail(s) ELSE s
  IN IF body # <<>> /\ AllDigits(body)
     THEN Parsed(Integer(IF signed /\ s[1] = "-" THEN -DigitsValue(body)
                         ELSE DigitsValue(body)))
     ELSE NotParsed

\* The first position of c in s, or 0.
IndexOf(s, c) ==
  IF \E i \in 1..Len(s) : s[i] = c
  THEN CHOOSE i \in 1..Len(s) : s[i] = c /\ \A j \in 1..(i - 1) : s[j] # c
  ELSE 0

RECURSIVE NormalizeFloat(_, _)
NormalizeFloat(m, s) ==
  IF m = 0 THEN <<0, 0>>
  ELSE IF m % 10 = 0 THEN NormalizeFloat(m \div 10, s + 1)
  ELSE <<m, s>>

\* str::parse::<f64>: [sign] digits [. digits] [e [sign] digits] with at
\* least one mantissa digit (the words inf and nan use letters outside the
\* alphabet of the model).
DeserializeF64(s) ==
  LET signed == s # <<>> /\ s[1] \in {"+", "-"}
      neg == signed /\ s[1] = "-"
      body == IF signed THEN Tail(s) ELSE s
      e == IndexOf(body, "e")
      mant == IF e = 0 THEN body ELSE SubSeq(body, 1, e - 1)
      ex == IF e = 0 THEN <<>> ELSE SubSeq(body, e + 1, Len(body))
      exSigned == ex # <<>> /\ ex[1] \in {"+", "-"}
      exDigits == IF exSigned THEN Tail(ex) ELSE ex
      dot == IndexOf(mant, ".")
      ip == IF dot = 0 THEN mant ELSE SubSeq(mant, 1, dot - 1)
      fp == IF dot = 0 THEN <<>> ELSE SubSeq(mant, dot + 1, Len(mant))
      expo == IF e = 0 THEN 0
              ELSE IF exSigned /\ ex[1] = "-" THEN -DigitsValue(exDigits)
              ELSE DigitsValue(exDigits)
      mag == DigitsValue(ip \o fp)
      nf == NormalizeFloat(IF neg THEN -mag ELSE mag, expo - Len(fp))
  IN IF /\ AllDigits(ip)
        /\ AllDigits(fp)
        /\ Len(ip) + Len(fp) >= 1
        /\ (e # 0 => exDigits # <<>> /\ AllDigits(exDigits))
     THEN Parsed(Float(nf[1], nf[2]))
     ELSE NotParsed

\* dd:dd:dd with hour <= 24, minute <= 59, second <= 59
ParseTime(s) ==
  IF /\ Len(s) = 8
     /\ AllDigits(SubSeq(s, 1, 2)) /\ s[3] = ":"
     /\ AllDigits(SubSeq(s, 4, 5)) /\ s[6] = ":"
     /\ AllDigits(SubSeq(s, 7, 8))
     /\ DigitsValue(SubSeq(s, 1, 2)) <= 24
     /\ DigitsValue(SubSeq(s, 4, 5)) <= 59
     /\ DigitsValue(SubSeq(s, 7, 8)) <= 59
  THEN <<DigitsValue(SubSeq(s, 1, 2)), DigitsValue(SubSeq(s, 4, 5)),
         DigitsValue(SubSeq(s, 7, 8))>>
  ELSE <<>>

\* dddd-dd-dd with month in 1..12 and day in 1..31
ParseDate(s) ==
  IF /\ Len(s) = 10
     /\ AllDigits(SubSeq(s, 1, 4)) /\ s[5] = "-"
     /\ AllDigits(SubSeq(s, 6, 7)) /\ s[8] = "-"
     /\ AllDigits(SubSeq(s, 9, 10))
     /\ DigitsValue(SubSeq(s, 6, 7)) \in 1..12
     /\ DigitsValue(SubSeq(s, 9, 10)) \in 1..31
  THEN <<DigitsValue(SubSeq(s, 1, 4)), DigitsValue(SubSeq(s, 6, 7)),
         DigitsValue(SubSeq(s, 9, 10))>>
  ELSE <<>>

\* toml::value::Datetime::from_str: a time alone (third character ':'), a
\* date alone, or a date, one of 'T' 't' ' ', and a time. Fractions of a
\* second and offsets are longer than any text of the model.
DeserializeDatetime(s) ==
  IF Len(s) < 3 THEN NotParsed
  ELSE IF s[3] = ":" THEN
    (IF ParseTime(s) # <<>> THEN Parsed(Datetime(<<>>, ParseTime(s)))
     ELSE NotParsed)
  ELSE IF Len(s) = 10 THEN
    (IF ParseDate(s) # <<>> THEN Parsed(Datetime(ParseDate(s), <<>>))
     ELSE NotParsed)
  ELSE IF /\ Len(s) = 19
          /\ s[11] \in {"T", "t", " "}
          /\ ParseDate(SubSeq(s, 1, 10)) # <<>>
          /\ ParseTime(SubSeq(s, 12, 19)) # <<>>
  THEN Parsed(Datetime(ParseDate(SubSeq(s, 1, 10)), ParseTime(SubSeq(s, 12, 19))))
  ELSE NotParsed

\* s, unless it is a failure: then the alternative (Result::or_else)
OrElse(first, second) == IF first.ok THEN first ELSE second

\* The or_else chain of deserialize_any, on the trimmed contents.
InferScalar(s) ==
  OrElse(DeserializeBool(s),
  OrElse(DeserializeStr(s),
  OrElse(DeserializeI64(s),
  OrElse(DeserializeF64(s),
         DeserializeDatetime(s)))))

----------------------------------------------------------------------------
(* The filesystem: a function from the canonical path of every existing     *)
(* entry (a sequence of names below the root directory "/", which is <<>>)  *)
(* to its node. A path handed to a filesystem call is a raw sequence of     *)
(* components, which may hold "..".                                         *)

DirNode == [kind |-> "dir", text |-> <<>>]

FileNode(text) == [kind |-> "file", text |-> text]

\* A filesystem entry that is neither a file nor a directory.
FifoNode == [kind |-> "fifo", text |-> <<>>]

EmptyFs == (<<>> :> DirNode)

Front(s) == SubSeq(s, 1, Len(s) - 1)

Last(s) == s[Len(s)]

DotDot == <<".", ".">>

\* The components of a relative or absolute path string: split at '/',
\* with empty components and "." dropped.
RECURSIVE SplitPath(_, _)
SplitPath(s, cur) ==
  LET done == IF cur = <<>> \/ cur = <<".">> THEN <<>> ELSE <<cur>>
  IN IF s = <<>> THEN done
     ELSE IF s[1] = "/" THEN done \o SplitPath(Tail(s), <<>>)
     ELSE SplitPath(Tail(s), cur \o <<s[1]>>)

\* Path::join: an absolute argument replaces the path, a relative one is
\* appended to it.
JoinKey(raw, key) ==
  IF key # <<>> /\ key[1] = "/" THEN SplitPath(key, <<>>)
  ELSE raw \o SplitPath(key, <<>>)

\* Path resolution by the operating system: every component walked through
\* must be an existing directory; ".." is the parent ("/" is its own).
RECURSIVE WalkDir(_, _, _)
WalkDir(f, cur, raw) ==
  IF raw = <<>> THEN [err |-> "", path |-> cur]
  ELSE LET next == IF raw[1] = DotDot
                   THEN (IF cur = <<>> THEN <<>> ELSE Front(cur))
                   ELSE cur \o <<raw[1]>>
       IN IF next \notin DOMAIN f THEN [err |-> "ENOENT", path |-> next]
          ELSE IF f[next].kind # "dir" THEN [err |-> "ENOTDIR", path |-> next]
          ELSE WalkDir(f, next, Tail(raw))

\* The canonical path a raw path names; its last component need not exist.
Locate(f, raw) ==
  IF raw = <<>> THEN [err |-> "", path |-> <<>>]
  ELSE LET w == WalkDir(f, <<>>, Front(raw))
       IN IF w.err # "" THEN w
          ELSE IF Last(raw) = DotDot
          THEN [err |-> "", path |-> IF w.path = <<>> THEN <<>> ELSE Front(w.path)]
          ELSE [err |-> "", path |-> w.path \o <<Last(raw)>>]

IsDirAt(f, raw) ==
  LET loc == Locate(f, raw)
  IN loc.err = "" /\ loc.path \in DOMAIN f /\ f[loc.path].kind = "dir"

\* fs::write: creates the file or replaces its contents; fails when the
\* parent is missing or the path names a directory.
FsWrite(f, raw, text) ==
  LET loc == Locate(f, raw)
  IN IF loc.err # "" THEN [ok |-> FALSE, fs |-> f]
     ELSE IF loc.path \in DOMAIN f /\ f[loc.path].kind = "dir"
     THEN [ok |-> FALSE, fs |-> f]
     ELSE [ok |-> TRUE, fs |-> (loc.path :> FileNode(text)) @@ f]

\* mkdir(2)
Mkdir(f, raw) ==
  LET loc == Locate(f, raw)
  IN IF loc.err # "" THEN [err |-> loc.err, fs |-> f]
     ELSE IF loc.path \in DOMAIN f THEN [err |-> "EEXIST", fs |-> f]
     ELSE [err |-> "", fs |-> (loc.path :> DirNode) @@ f]

\* fs::create_dir_all: mkdir; when an ancestor is missing, create the parent
\* path first and mkdir again; an existing directory is not an error.
RECURSIVE CreateDirAll(_, _)
CreateDirAll(f, raw) ==
  LET m == Mkdir(f, raw)
  IN IF m.err = "" THEN [ok |-> TRUE, fs |-> m.fs]
     ELSE IF m.err = "ENOENT" THEN
       LET p == CreateDirAll(f, Front(raw))
           m2 == Mkdir(p.fs, raw)
       IN IF ~p.ok THEN p
          ELSE IF m2.err = "" THEN [ok |-> TRUE, fs |-> m2.fs]
          ELSE [ok |-> IsDirAt(p.fs, raw), fs |-> p.fs]
     ELSE [ok |-> IsDirAt(f, raw), fs |-> f]

----------------------------------------------------------------------------
(* explode.rs: each visitor returns [ok, fs]: whether it returned Ok(()) and *)
(* the filesystem it leaves (on an error, what was written before it).       *)

\* visit_serialize: fs::write(path, toml::to_string(&value)?)
VisitSerialize(val, raw, f) == FsWrite(f, raw, TomlToString(val))

RECURSIVE VisitValue(_, _, _), VisitEntries(_, _, _, _), VisitElements(_, _, _, _)

\* The loop of visit_table over table.iter(): ascending key order, `?` on
\* every child.
VisitEntries(tbl, keys, raw, f) ==
  IF keys = <<>> THEN [ok |-> TRUE, fs |-> f]
  ELSE LET r == VisitValue(tbl[keys[1]], JoinKey(raw, keys[1]), f)
       IN IF ~r.ok THEN r ELSE VisitEntries(tbl, Tail(keys), raw, r.fs)

VisitTable(tbl, raw, f) ==
  LET c == CreateDirAll(f, raw)
  IN IF ~c.ok THEN c
     ELSE VisitEntries(tbl, SortedTexts(DOMAIN tbl), raw, c.fs)

\* The loop of visit_array over array.iter().enumerate() from index i.
VisitElements(arr, i, raw, f) ==
  IF i >= Len(arr) THEN [ok |-> TRUE, fs |-> f]
  ELSE LET r == VisitValue(arr[i + 1], raw \o <<NatToText(i)>>, f)
       IN IF ~r.ok THEN r ELSE VisitElements(arr, i + 1, raw, r.fs)

\* visit_array: no directory is created for the array itself.
VisitArray(arr, raw, f) == VisitElements(arr, 0, raw, f)

VisitValue(val, raw, f) ==
  CASE val.t = "Table" -> VisitTable(val.v, raw, f)
    [] val.t = "Array" -> VisitArray(val.v, raw, f)
    [] OTHER -> VisitSerialize(val, raw, f)

----------------------------------------------------------------------------
(* implode.rs                                                              *)

\* The names of the entries of directory `path`.
EntryNames(f, path) ==
  {p[Len(p)] : p \in {q \in DOMAIN f : Len(q) = Len(path) + 1
                                        /\ SubSeq(q, 1, Len(path)) = path}}

\* fs::read_dir lists the entries in an order the filesystem chooses: here
\* the names in byte order, rearranged by the listing order `ord` (a
\* permutation; entry i comes before entry j when ord[i] < ord[j]).
ReadDir(f, path, ord) ==
  LET base == SortedTexts(EntryNames(f, path))
      n == Len(base)
  IN [j \in 1..n |->
        base[CHOOSE i \in 1..n :
               Cardinality({k \in 1..n : ord[k] < ord[i]}) = j - 1]]

\* str::parse::<usize>: an optional '+' and at least one digit (names are
\* far shorter than 20 digits).
ParseUsize(name) ==
  LET body == IF name # <<>> /\ name[1] = "+" THEN Tail(name) ELSE name
  IN IF body # <<>> /\ AllDigits(body)
     THEN [ok |-> TRUE, n |-> DigitsValue(body)]
     ELSE [ok |-> FALSE, n |-> 0]

\* Vec::sort_by on the parsed key: a stable sort of <<key, name>> pairs.
RECURSIVE InsertByKey(_, _)
InsertByKey(sorted, e) ==
  IF sorted = <<>> THEN <<e>>
  ELSE IF Last(sorted)[1] <= e[1] THEN sorted \o <<e>>
  ELSE InsertByKey(Front(sorted), e) \o <<Last(sorted)>>

RECURSIVE SortByKey(_)
SortByKey(pairs) ==
  IF pairs = <<>> THEN <<>>
  ELSE InsertByKey(SortByKey(Front(pairs)), Last(pairs))

\* Vec::dedup: consecutive equal elements collapse to one.
RECURSIVE Dedup(_)
Dedup(s) ==
  IF Len(s) <= 1 THEN s
  ELSE IF s[1] = s[2] THEN Dedup(Tail(s))
  ELSE <<s[1]>> \o Dedup(Tail(s))

\* Mutant of IsSequential: the count of deduplicated indexes is not compared
\* with the number of files.
IsSequentialUncounted(indexes, n) ==
  /\ indexes[1] = 0
  /\ indexes[Len(indexes)] = n - 1

\* The test of deserialize_array on the deduplicated indexes of a non-empty
\* listing of n files.
IsSequential(indexes, n) ==
  /\ indexes[1] = 0
  /\ indexes[Len(indexes)] = n - 1
  /\ Len(indexes) = n

RECURSIVE DeserializeAny(_, _, _), UnwrapAll(_, _, _, _, _), InsertAll(_, _, _, _, _)

\* The map of deserialize_array over the sorted files: unwrap() panics on
\* the first child that is not Ok.
UnwrapAll(f, path, names, ord, acc) ==
  IF names = <<>> THEN Ok(Array(acc))
  ELSE LET r == DeserializeAny(f, path \o <<names[1]>>, ord)
       IN IF r.r # "Ok" THEN Panic
          ELSE UnwrapAll(f, path, Tail(names), ord, acc \o <<r.v>>)

\* Mutant of ArrayFiles: the array is built from the files as listed.
ListedFiles(files, indexed_files) == files

\* The files the array is built from: indexed_files.iter(), in sorted order.
ArrayFiles(files, indexed_files) ==
  [i \in 1..Len(indexed_files) |-> indexed_files[i][2]]

DeserializeArray(f, path, files, ord) ==
  LET parsed == [i \in 1..Len(files) |-> ParseUsize(files[i])]
      indexed_files == SortByKey([i \in 1..Len(files) |-> <<parsed[i].n, files[i]>>])
      indexes == Dedup([i \in 1..Len(files) |-> indexed_files[i][1]])
  IN IF \E i \in 1..Len(files) : ~parsed[i].ok
     THEN Err("Invalid Unsigned Integer", path)
     ELSE IF indexes = <<>> THEN Panic
     ELSE IF IsSequential(indexes, Len(files))
     THEN UnwrapAll(f, path, ArrayFiles(files, indexed_files), ord, <<>>)
     ELSE Err("Not a valid TOML array", path)

\* The loop of deserialize_table: `?` returns the first child's error.
InsertAll(f, path, files, ord, tbl) ==
  IF files = <<>> THEN Ok(Table(tbl))
  ELSE LET r == DeserializeAny(f, path \o <<files[1]>>, ord)
       IN IF r.r # "Ok" THEN r
          ELSE InsertAll(f, path, Tail(files), ord, (files[1] :> r.v) @@ tbl)

\* Mutant of DeserializeTable: entries whose names are integers are skipped.
DeserializeTableOfWords(f, path, files, ord) ==
  InsertAll(f, path, SelectSeq(files, LAMBDA nm : ~ParseUsize(nm).ok), ord, <<>>)

DeserializeTable(f, path, files, ord) == InsertAll(f, path, files, ord, <<>>)

\* The directory branch of deserialize_any:
\* deserialize_array(&files).or_else(|_| deserialize_table(&files))
DeserializeDir(f, path, ord) ==
  LET files == ReadDir(f, path, ord)
      a == DeserializeArray(f, path, files, ord)
  IN IF a.r = "Err" THEN DeserializeTable(f, path, files, ord) ELSE a

\* The file branch of deserialize_any.
DeserializeFile(f, path) ==
  LET value == InferScalar(TrimEnd(f[path].text))
  IN IF value.ok THEN Ok(value.val)
     ELSE Err("Could not parse TOML value for file", path)

DeserializeAny(f, path, ord) ==
  IF path \notin DOMAIN f THEN Err("No such file or directory", path)
  ELSE IF f[path].kind = "file" THEN DeserializeFile(f, path)
  ELSE IF f[path].kind = "dir" THEN DeserializeDir(f, path, ord)
  ELSE Err("Not a file or a dictory", path)

----------------------------------------------------------------------------
(* Bounds and input sets                                                   *)

\* The number of nodes of an exploded value.
MaxDocNodes == 4

\* The number of entries (files and directories) of an imploded tree.
MaxTreeNodes == 4

\* The number of entries of one directory.
MaxEntries == 3

\* The length of a file's contents drawn from Alphabet, and of the
\* whitespace that follows them.
MaxTextLen == 3

MaxTail == 2

Dest == <<<<"d">>>>

ScalarValues ==
  { Boolean(TRUE), String(<<"a">>), String(<<>>), Integer(12),
    Float(15, -1), Datetime(<<1979, 5, 27>>, <<>>) }

Keys == { <<"a">>, <<"0">>, <<"1">>, <<"a", "/", "b">>, DotDot }

FileTexts == { <<"t", "r", "u", "e">>, <<"x">> }

Names == { <<"0">>, <<"1">>, <<"2">>, <<"0", "2">>, <<"a">> }

Alphabet == { "\"", "1", "-", ".", "e" }

Words ==
  { <<"t", "r", "u", "e">>, <<"f", "a", "l", "s", "e">>,
    <<"\"", "t", "r", "u", "e", "\"">>, <<"\"", "1", "2", "\"">>,
    <<"+", "1", "2">>, <<" ", "1">>, <<"1", " ", "1">>,
    <<"\"", "\n", "\"">>, <<"1", ".", "5", "0">>, <<"1", "e", "-", "1", "0">>,
    <<"1", "9", "7", "9", "-", "0", "5", "-", "2", "7">>,
    <<"1", "9", "7", "9", "-", "1", "3", "-", "2", "7">>,
    <<"0", "7", ":", "3", "2", ":", "0", "0">>,
    <<"1", "9", "7", "9", "-", "0", "5", "-", "2", "7", "T",
      "0", "7", ":", "3", "2", ":", "0", "0">> }

RECURSIVE SeqsUpTo(_, _)
SeqsUpTo(S, n) ==
  IF n = 0 THEN {<<>>}
  ELSE LET shorter == SeqsUpTo(S, n - 1)
       IN shorter \cup {<<c>> \o t : c \in S, t \in {u \in shorter : Len(u) = n - 1}}

ContentsUpTo(n, w) ==
  {body \o tail : body \in SeqsUpTo(Alphabet, n) \cup Words,
                  tail \in SeqsUpTo({" ", "\n", "\t"}, w)}

\* The function on key set S that maps the i-th key in byte order to cs[i].
Keyed(S, cs) ==
  LET ks == SortedTexts(S)
  IN [k \in S |-> cs[CHOOSE i \in 1..Len(ks) : ks[i] = k]]

KeySets(K, n) == {S \in SUBSET K : Cardinality(S) = n}

\* Values by number of nodes. ValueSeqs(m): the sequences of at most
\* MaxEntries values with m nodes in all.
RECURSIVE ValuesOfSize(_), ValueSeqs(_)
ValueSeqs(m) ==
  IF m = 0 THEN {<<>>}
  ELSE UNION {{<<x>> \o rest : x \in ValuesOfSize(j),
                               rest \in {r \in ValueSeqs(m - j) : Len(r) < MaxEntries}}
              : j \in 1..m}

ValuesOfSize(n) ==
  IF n = 1 THEN ScalarValues \cup {Array(<<>>), Table(<<>>)}
  ELSE {Array(cs) : cs \in ValueSeqs(n - 1)}
       \cup UNION {{Table(Keyed(S, cs)) : S \in KeySets(Keys, Len(cs))}
                   : cs \in ValueSeqs(n - 1)}

ValuesUpTo(n) == UNION {ValuesOfSize(k) : k \in 1..n}

\* Directory trees by number of entries: [t |-> "file", v |-> contents],
\* [t |-> "dir", v |-> a function from entry names to trees].
RECURSIVE TreesOfSize(_), TreeSeqs(_)
TreeSeqs(m) ==
  IF m = 0 THEN {<<>>}
  ELSE UNION {{<<x>> \o rest : x \in TreesOfSize(j),
                               rest \in {r \in TreeSeqs(m - j) : Len(r) < MaxEntries}}
              : j \in 1..m}

TreesOfSize(n) ==
  IF n = 1 THEN {[t |-> "file", v |-> c] : c \in FileTexts}
                \cup {[t |-> "dir", v |-> <<>>]}
  ELSE UNION {{[t |-> "dir", v |-> Keyed(S, cs)] : S \in KeySets(Names, Len(cs))}
              : cs \in TreeSeqs(n - 1)}

TreesUpTo(n) == UNION {TreesOfSize(k) : k \in 1..n}

\* The filesystem entries of tree `tree` placed at `path`.
RECURSIVE Mount(_, _), MountAll(_, _, _)
MountAll(kids, names, path) ==
  IF names = <<>> THEN <<>>
  ELSE Mount(kids[names[1]], path \o <<names[1]>>) @@ MountAll(kids, Tail(names), path)

Mount(tree, path) ==
  IF tree.t = "file" THEN (path :> FileNode(tree.v))
  ELSE (path :> DirNode) @@ MountAll(tree.v, SortedTexts(DOMAIN tree.v), path)

\* The listing orders that tell the directories of f apart: the permutations
\* of as many positions as the widest directory of f has entries.
ListingOrders(f) ==
  LET dirs == {p \in DOMAIN f : f[p].kind = "dir"}
      widths == {Cardinality(EntryNames(f, p)) : p \in dirs} \cup {1}
  IN Permutations(1..(CHOOSE w \in widths : \A v \in widths : v <= w))

----------------------------------------------------------------------------
(* The explode-then-implode run: a value is exploded to Dest in an empty    *)
(* filesystem, and Dest is imploded.                                        *)

Init ==
  /\ doc \in ValuesUpTo(MaxDocNodes)
  /\ fs = EmptyFs
  /\ pc = "start"
  /\ explodeRes = "None"
  /\ arrayRes = NotRun
  /\ result = NotRun

\* visit_value(&doc, destination)
Explode ==
  /\ pc = "start"
  /\ LET r == VisitValue(doc, Dest, fs)
     IN /\ fs' = r.fs
        /\ explodeRes' = IF r.ok THEN "Ok" ELSE "Err"
  /\ pc' = "exploded"
  /\ UNCHANGED <<doc, arrayRes, result>>

\* deserialize_any(path) under some listing order of the directories;
\* arrayRes keeps what deserialize_array returned for the top directory.
Implode ==
  /\ pc \in {"exploded", "ready"}
  /\ \E ord \in ListingOrders(fs) :
       /\ result' = DeserializeAny(fs, Dest, ord)
       /\ arrayRes' = IF Dest \in DOMAIN fs /\ fs[Dest].kind = "dir"
                      THEN DeserializeArray(fs, Dest, ReadDir(fs, Dest, ord), ord)
                      ELSE NotRun
  /\ pc' = "imploded"
  /\ UNCHANGED <<doc, fs, explodeRes>>

Next == Explode \/ Implode

Spec == Init /\ [][Next]_vars

(* Implode alone, on a directory tree or a single entry written by hand.   *)
InitImplode ==
  /\ doc = NoValue
  /\ fs \in {Mount(tree, Dest) @@ EmptyFs : tree \in TreesUpTo(MaxTreeNodes)}
         \cup {(Dest :> FileNode(c)) @@ EmptyFs : c \in ContentsUpTo(MaxTextLen, MaxTail)}
         \cup {(Dest :> FifoNode) @@ EmptyFs, EmptyFs}
  /\ pc = "ready"
  /\ explodeRes = "None"
  /\ arrayRes = NotRun
  /\ result = NotRun

ImplodeSpec == InitImplode /\ [][Implode]_vars

----------------------------------------------------------------------------
(* Vocabulary of the properties                                            *)

DestIsDir == Dest \in DOMAIN fs /\ fs[Dest].kind = "dir"

DestIsFile == Dest \in DOMAIN fs /\ fs[Dest].kind = "file"

\* Every name parses as a non-negative integer and the parsed indices are
\* exactly 0 .. n-1, no two names sharing an index.
DenseIndexNames(S) ==
  /\ \A nm \in S : ParseUsize(nm).ok
  /\ {ParseUsize(nm).n : nm \in S} = 0..(Cardinality(S) - 1)
  /\ \A a \in S, b \in S : ParseUsize(a).n = ParseUsize(b).n => a = b

\* Every entry of Dest implodes to a value, under every listing order.
EntriesImplode ==
  \A nm \in EntryNames(fs, Dest), ord \in ListingOrders(fs) :
    DeserializeAny(fs, Dest \o <<nm>>, ord).r = "Ok"

RECURSIVE HasIndexTable(_)
HasIndexTable(val) ==
  CASE val.t = "Table" ->
         \/ DenseIndexNames(DOMAIN val.v)
         \/ \E k \in DOMAIN val.v : HasIndexTable(val.v[k])
    [] val.t = "Array" -> \E i \in 1..Len(val.v) : HasIndexTable(val.v[i])
    [] OTHER -> FALSE

\* C1: round trip. Exploding a value that holds no table with a dense
\* zero-based integer key set to a fresh path, then imploding the path,
\* succeeds and returns the value.
RoundTrip ==
  (pc = "imploded" /\ doc.t # "None" /\ ~HasIndexTable(doc))
    => (explodeRes = "Ok" /\ result = Ok(doc))

\* C2: array classification. For a non-empty directory, deserialize_array
\* rejects it exactly when its names are not the dense indices 0 .. n-1
\* (a gap, a duplicate parsed index or a name that is no integer), and
\* when the names are dense and the entries implode it returns an Array
\* with one element per entry.
ArrayClassification ==
  (pc = "imploded" /\ DestIsDir /\ EntryNames(fs, Dest) # {})
    => LET names == EntryNames(fs, Dest)
       IN /\ arrayRes.r = "Err" <=> ~DenseIndexNames(names)
          /\ (DenseIndexNames(names) /\ EntriesImplode)
               => /\ arrayRes.r = "Ok"
                  /\ arrayRes.v.t = "Array"
                  /\ Len(arrayRes.v.v) = Cardinality(names)

\* A directory {"0","1","2"} was accepted as an Array of length 3.
ArrayClassificationWitness ==
  /\ pc = "imploded"
  /\ DestIsDir
  /\ EntryNames(fs, Dest) = {<<"0">>, <<"1">>, <<"2">>}
  /\ arrayRes.r = "Ok"
  /\ Len(arrayRes.v.v) = 3

\* C3: array element order. When deserialize_array accepts a directory,
\* element i of the Array is the imploded value of the entry whose name
\* parsed to i, whatever the order the filesystem listed the entries in.
ArrayElementOrder ==
  (pc = "imploded" /\ arrayRes.r = "Ok")
    => \A nm \in EntryNames(fs, Dest), ord \in ListingOrders(fs) :
         arrayRes.v.v[ParseUsize(nm).n + 1] = DeserializeAny(fs, Dest \o <<nm>>, ord).v

\* An accepted array whose first two elements differ.
ArrayElementOrderWitness ==
  /\ pc = "imploded"
  /\ arrayRes.r = "Ok"
  /\ Len(arrayRes.v.v) >= 2
  /\ arrayRes.v.v[1] # arrayRes.v.v[2]

\* The filesystem subtree that section 4.1 of the design prescribes for a
\* value whose keys are plain names.
RECURSIVE ExplodesTo(_, _, _)
ExplodesTo(val, path, f) ==
  /\ path \in DOMAIN f
  /\ CASE val.t = "Table" ->
            /\ f[path].kind = "dir"
            /\ EntryNames(f, path) = DOMAIN val.v
            /\ \A k \in DOMAIN val.v : ExplodesTo(val.v[k], path \o <<k>>, f)
       [] val.t = "Array" ->
            /\ f[path].kind = "dir"
            /\ EntryNames(f, path) = {NatToText(i - 1) : i \in 1..Len(val.v)}
            /\ \A i \in 1..Len(val.v) :
                 ExplodesTo(val.v[i], path \o <<NatToText(i - 1)>>, f)
       [] OTHER -> f[path] = FileNode(TomlToString(val))

IsPlainName(k) == k # <<>> /\ k # DotDot /\ k # <<".">> /\ \A i \in 1..Len(k) : k[i] # "/"

RECURSIVE PlainKeys(_)
PlainKeys(val) ==
  CASE val.t = "Table" ->
         \A k \in DOMAIN val.v : IsPlainName(k) /\ PlainKeys(val.v[k])
    [] val.t = "Array" -> \A i \in 1..Len(val.v) : PlainKeys(val.v[i])
    [] OTHER -> TRUE

RECURSIVE HasArray(_)
HasArray(val) ==
  CASE val.t = "Table" -> \E k \in DOMAIN val.v : HasArray(val.v[k])
    [] val.t = "Array" -> TRUE
    [] OTHER -> FALSE

\* C4: explode of an Array. Exploding a value that holds an Array, at the
\* root or nested, succeeds and leaves for every Array a directory whose
\* entries are exactly 0 .. n-1, entry i the explosion of element i (an
\* empty directory for an empty Array).
ExplodeArray ==
  (pc = "exploded" /\ HasArray(doc) /\ PlainKeys(doc))
    => (explodeRes = "Ok" /\ ExplodesTo(doc, Dest, fs))

\* C5: empty directory. deserialize_any on a directory with no entry
\* returns Array([]) or Table({}); it never fails or crashes.
EmptyDirectory ==
  (pc = "imploded" /\ DestIsDir /\ EntryNames(fs, Dest) = {})
    => /\ result.r = "Ok"
       /\ result.v.t \in {"Array", "Table"}
       /\ result.v.v = <<>>

\* A text enclosed in one leading and one trailing double quote, on one line.
FullyQuoted(s) ==
  /\ Len(s) >= 2
  /\ s[1] = "\""
  /\ s[Len(s)] = "\""
  /\ \A i \in 1..Len(s) : s[i] # "\n"

\* C6: scalar inference precedence. The result is that of the first
\* grammar, in the order Boolean, String, Integer, Float, DateTime, that
\* accepts the normalized text; all-digit text is an Integer, true and
\* false are Booleans, and a fully double-quoted text is a String.
ScalarPrecedence ==
  (pc = "imploded" /\ DestIsFile)
    => LET s == TrimEnd(fs[Dest].text)
       IN /\ DeserializeBool(s).ok => result = Ok(DeserializeBool(s).val)
          /\ (~DeserializeBool(s).ok /\ DeserializeStr(s).ok)
               => result = Ok(DeserializeStr(s).val)
          /\ (~DeserializeBool(s).ok /\ ~DeserializeStr(s).ok /\ DeserializeI64(s).ok)
               => result = Ok(DeserializeI64(s).val)
          /\ (s # <<>> /\ AllDigits(s)) => result = Ok(Integer(DigitsValue(s)))
          /\ s = <<"t", "r", "u", "e">> => result = Ok(Boolean(TRUE))
          /\ s = <<"f", "a", "l", "s", "e">> => result = Ok(Boolean(FALSE))
          /\ FullyQuoted(s) => result = Ok(String(SubSeq(s, 2, Len(s) - 1)))

\* C7: table classification. A directory whose names do not qualify as an
\* array implodes, when its entries implode, to a Table whose keys are
\* exactly the entry names, verbatim, each mapped to the imploded value of
\* its entry; when an entry does not implode, no Table is returned.
TableClassification ==
  (pc = "imploded" /\ DestIsDir /\ ~DenseIndexNames(EntryNames(fs, Dest)))
    => IF EntriesImplode
       THEN /\ result.r = "Ok"
            /\ result.v.t = "Table"
            /\ DOMAIN result.v.v = EntryNames(fs, Dest)
            /\ \A nm \in EntryNames(fs, Dest), ord \in ListingOrders(fs) :
                 result.v.v[nm] = DeserializeAny(fs, Dest \o <<nm>>, ord).v
       ELSE result.r # "Ok"

\* A Table was returned that keeps the integer-looking name "0" as a key.
TableClassificationWitness ==
  /\ pc = "imploded"
  /\ DestIsDir
  /\ result.r = "Ok"
  /\ result.v.t = "Table"
  /\ <<"0">> \in DOMAIN result.v.v
  /\ Cardinality(DOMAIN result.v.v) >= 2

\* What deserialize_any returns for a file whose normalized contents are s.
Inferred(s) ==
  IF InferScalar(s).ok THEN Ok(InferScalar(s).val)
  ELSE Err("Could not parse TOML value for file", Dest)

\* s without one trailing line terminator ("\n" or "\r\n"), if it has one.
StripLineTerminator(s) ==
  IF s # <<>> /\ Last(s) = "\n"
  THEN (IF Len(s) >= 2 /\ s[Len(s) - 1] = "\r" THEN SubSeq(s, 1, Len(s) - 2)
        ELSE Front(s))
  ELSE s

\* C8 as stated: exactly one trailing line terminator is stripped before
\* inference and nothing else.
StripsOneTerminator ==
  (pc = "imploded" /\ DestIsFile)
    => result = Inferred(StripLineTerminator(fs[Dest].text))

\* C8 amended: every trailing whitespace character (space, tab, newline,
\* carriage return) is stripped before inference and nothing else: the
\* result is the inference of the longest prefix of the contents that does
\* not end in whitespace.
StripsTrailingWhitespace ==
  (pc = "imploded" /\ DestIsFile)
    => \A k \in 0..Len(fs[Dest].text) :
         ( /\ \A i \in (k + 1)..Len(fs[Dest].text) : IsWhitespace(fs[Dest].text[i])
           /\ (k > 0 => ~IsWhitespace(fs[Dest].text[k])) )
         => result = Inferred(SubSeq(fs[Dest].text, 1, k))

\* A literal followed by a space and a newline was read as the literal.
StripsTrailingWhitespaceWitness ==
  /\ pc = "imploded"
  /\ DestIsFile
  /\ fs[Dest].text = <<"t", "r", "u", "e", " ", "\n">>
  /\ result = Ok(Boolean(TRUE))

\* Some file below Dest matches none of the five scalar grammars.
HasUnparsableFile ==
  \E p \in DOMAIN fs :
    /\ Len(p) >= 1 /\ SubSeq(p, 1, 1) = Dest
    /\ fs[p].kind = "file"
    /\ ~InferScalar(TrimEnd(fs[p].text)).ok

HasEmptyDir ==
  \E p \in DOMAIN fs :
    /\ Len(p) >= 1 /\ SubSeq(p, 1, 1) = Dest
    /\ fs[p].kind = "dir"
    /\ EntryNames(fs, p) = {}

\* C9: implode error propagation. When some descendant file matches no
\* scalar grammar, deserialize_any on the root returns an error, under a
\* Table directory and under an Array directory alike.
ErrorPropagation ==
  (pc = "imploded" /\ HasUnparsableFile /\ ~HasEmptyDir) => result.r = "Err"

\* The nodes of a value, each named by the keys and indices that lead to it.
RECURSIVE NodePaths(_)
NodePaths(val) ==
  {<<>>} \cup
  CASE val.t = "Table" ->
         UNION {{<<k>> \o p : p \in NodePaths(val.v[k])} : k \in DOMAIN val.v}
    [] val.t = "Array" ->
         UNION {{<<NatToText(i - 1)>> \o p : p \in NodePaths(val.v[i])}
                : i \in 1..Len(val.v)}
    [] OTHER -> {}

RECURSIVE JoinAll(_, _)
JoinAll(raw, steps) ==
  IF steps = <<>> THEN raw ELSE JoinAll(JoinKey(raw, steps[1]), Tail(steps))

\* The entry a raw path names once its ".." components are resolved.
RECURSIVE Resolved(_, _)
Resolved(cur, raw) ==
  IF raw = <<>> THEN cur
  ELSE IF raw[1] = DotDot
  THEN Resolved(IF cur = <<>> THEN <<>> ELSE Front(cur), Tail(raw))
  ELSE Resolved(cur \o <<raw[1]>>, Tail(raw))

\* The filesystem path visit_value gives the node at `steps`.
NodeTarget(steps) == Resolved(<<>>, JoinAll(Dest, steps))

IsPrefix(a, b) == Len(a) <= Len(b) /\ SubSeq(b, 1, Len(a)) = a

\* C10: no aliasing in explode. Distinct nodes of the value get distinct
\* filesystem paths, and a node's path lies inside another node's
\* directory only when it belongs to that node's subtree, for every key.
NoAliasing ==
  pc = "exploded"
    => \A x \in NodePaths(doc), y \in NodePaths(doc) :
         IsPrefix(NodeTarget(x), NodeTarget(y)) => IsPrefix(x, y)

====
